---- MODULE Spec2Model ----
(***************************************************************************)
(* Model of main.py of bitbucket-to-gitlab: the repository generators,     *)
(* the bounded-concurrency import loop (import_projects, check_and_sleep,  *)
(* trigger_import) and the permission copy (copy_permissions,              *)
(* copy_permissions_for).                                                  *)
(*                                                                         *)
(* Strings of the program are modelled as tuples of one-character strings, *)
(* so that concatenation ("~" + slug, slug + "_BB", group + "/" + slug)    *)
(* and str.strip are computed and not assumed.                             *)
(***************************************************************************)
EXTENDS Integers, Sequences, FiniteSets, TLC

\* ------------------------------------------------------------------ bounds
\* the largest value of parallel_imports that is tried
MaxParallel == 2
\* the largest number of repositories in the first Bitbucket project / user
MaxRepos == 2

\* ------------------------------------------------------- string constants
Tilde == <<"~">>
Slash == <<"/">>
EmptyStr == <<>>
\* the suffix trigger_import passes on a rename
SuffixBB == <<"_", "B", "B">>

\* keys of the Bitbucket projects (slugs of the Bitbucket users), in the order
\* the Bitbucket server lists them
GroupNames == << <<"a">>, <<"b">> >>
\* slugs of the repositories of one project, in the order Bitbucket lists them
RepoNames == << <<"x">>, <<"y">>, <<"z">>, <<"w">> >>

\* values of on_duplicate: the three the program knows and one it rejects
Policies == {"error", "ignore", "rename", "other"}
\* values of group_prefix that are tried
Prefixes == {EmptyStr, <<"/", "n", "/">>}
\* values of project_blacklist that are tried
Blacklists == {{}, {GroupNames[1]}, {Tilde \o GroupNames[1]}}
\* the answers of gitlab.projects.import_bitbucket_server: accepted, rejected
\* with 422 "Path has already been taken", rejected with any other error
Responses == {"ok", "conflict", "error"}
\* the values of import_status a GitLab project can have
ImportStatuses == {"scheduled", "started", "finished", "failed"}

\* the access levels of python-gitlab
REPORTER_ACCESS == 20
DEVELOPER_ACCESS == 30
OWNER_ACCESS == 50
\* `gl_user_access - 10`: the step of the fallback
FallbackStep == 10
\* `level >= 50`: the level that counts as a new admin
AdminLevel == 50

\* the module's permission_map
permission_map ==
    [p \in {"PROJECT_READ", "REPO_READ", "PROJECT_WRITE", "REPO_WRITE",
            "PROJECT_ADMIN", "REPO_ADMIN"} |->
        CASE p \in {"PROJECT_READ", "REPO_READ"}   -> REPORTER_ACCESS
          [] p \in {"PROJECT_WRITE", "REPO_WRITE"} -> DEVELOPER_ACCESS
          [] OTHER                                 -> OWNER_ACCESS]

\* the slugs of the Bitbucket users, in the order Bitbucket lists them
UserNames == <<"alice", "bob">>
Handles == {UserNames[i] : i \in 1..Len(UserNames)}
\* the account of GITLAB_TOKEN (gitlab.user)
current_user == "root"
\* what the first members.create is answered with: done, or any GitlabError
FirstResults == {"ok", "error"}
\* what the second members.create is answered with: done, or a GitlabError whose
\* text has "already exists", "inherited membership from group", or neither
CreateResults == {"ok", "exists", "inherited", "other"}

VARIABLES
    generator,          \* "main" or "personal": the class of repo_generator
    bb_groups,          \* self.projects / self.users: the keys (slugs), in order
    bb_repos,           \* bitbucket.repo_list per entry of bb_groups: the slugs
    on_duplicate,       \* the module's configuration
    group_prefix,
    parallel_imports,
    project_blacklist,
    pc,                 \* where import_projects is
    phase,              \* which loop called check_and_sleep: "refill", "drain"
    iter_pos,           \* how many descriptors projects_iter has yielded
    processing,         \* the in-flight list: ids of the jobs
    counter,
    updated,            \* check_and_sleep's list
    poll_i,             \* check_and_sleep's position in processing
    slept,              \* whether the last poll round ended with time.sleep
    import_status,      \* the target platform: import_status of each job that
                        \* is in processing
    submissions,        \* the calls of import_bitbucket_server that the last
                        \* trigger_import made, in order
    dropped,            \* the statuses of the jobs poll rounds left out of updated
    dry_run,            \* the argument of copy_permissions
    ppc,                \* where copy_permissions is
    pg,                 \* the index of bb_project in project_list
    pr,                 \* the index of bb_repo in bb_repo_list (0: the group)
    entity,             \* gl_entity: its type and the path it was fetched by
    bb_users,           \* the bb_users argument of copy_permissions_for
    u_idx,              \* the index of bb_user in bb_users
    user_map,           \* the cache: "absent" (no key), "none" (None), "user"
    lookups,            \* the calls of gitlab.users.list, per username
    cache_hit,          \* whether the last bb_user was found in user_map
    users_granted,      \* the dict of copy_permissions_for (0: no key)
    members,            \* the access levels of the members of gl_entity
    create_calls,       \* the calls of gl_entity.members.create, in order
    delete_call         \* the answer to gl_entity.members.delete, or "none"

sched_vars == <<pc, phase, iter_pos, processing, counter, updated, poll_i, slept>>
config_vars == <<generator, bb_groups, bb_repos, on_duplicate, group_prefix,
                 parallel_imports, project_blacklist>>
env_vars == <<import_status, submissions, dropped>>
perm_vars == <<dry_run, ppc, pg, pr, entity, bb_users, u_idx, user_map, lookups,
               cache_hit, users_granted, members, create_calls, delete_call>>
import_vars == <<sched_vars, env_vars>>
vars == <<config_vars, sched_vars, env_vars, perm_vars>>

\* ------------------------------------------------------------ NameMapper
RECURSIVE LStrip(_)
\* str.lstrip('/')
LStrip(s) == IF s # <<>> /\ Head(s) = "/" THEN LStrip(Tail(s)) ELSE s

RECURSIVE RStrip(_)
\* str.rstrip('/')
RStrip(s) ==
    IF s # <<>> /\ s[Len(s)] = "/" THEN RStrip(SubSeq(s, 1, Len(s) - 1)) ELSE s

\* group_prefix.strip('/')
Strip(s) == RStrip(LStrip(s))

\* get_gitlab_group: the prefix, when there is one, joined as a path
get_gitlab_group(bitbucket_project) ==
    IF group_prefix # EmptyStr
    THEN Strip(group_prefix) \o Slash \o bitbucket_project
    ELSE bitbucket_project

\* ProjectMapping.gitlab_path
gitlab_path(project) == project.gl_group \o Slash \o project.gl_project

\* --------------------------------------------------------- the generators
RECURSIVE Flatten_LastFirst(_)
\* the groups walked from the last to the first
Flatten_LastFirst(ss) ==
    IF ss = <<>> THEN <<>> ELSE Flatten_LastFirst(Tail(ss)) \o Head(ss)

RECURSIVE Flatten(_)
\* the nested loops of yield_repos: the repos of the first group, then of the next
Flatten(ss) == IF ss = <<>> THEN <<>> ELSE Head(ss) \o Flatten(Tail(ss))

\* `bb_project_slug in project_blacklist` of the main generator
MainSkips(i) == bb_groups[i] \in project_blacklist

\* BitbucketMainRepoGenerator.yield_repos, as the sequence it yields
MainYieldRepos ==
    Flatten([i \in 1..Len(bb_groups) |->
        IF MainSkips(i) THEN <<>>
        ELSE [j \in 1..Len(bb_repos[i]) |->
                [bb_project |-> bb_groups[i],
                 bb_repo    |-> bb_repos[i][j],
                 gl_group   |-> get_gitlab_group(bb_groups[i]),
                 gl_project |-> bb_repos[i][j]]]])

\* `bb_user_slug in project_blacklist` of the personal generator
PersonalSkips(i) == bb_groups[i] \in project_blacklist

\* BitbucketPersonalRepoGenerator.yield_repos, as the sequence it yields
PersonalYieldRepos ==
    Flatten([i \in 1..Len(bb_groups) |->
        IF PersonalSkips(i) THEN <<>>
        ELSE [j \in 1..Len(bb_repos[i]) |->
                [bb_project |-> Tilde \o bb_groups[i],
                 bb_repo    |-> bb_repos[i][j],
                 gl_group   |-> bb_groups[i],
                 gl_project |-> bb_repos[i][j]]]])

\* repo_generator.yield_repos()
yield_repos == IF generator = "main" THEN MainYieldRepos ELSE PersonalYieldRepos

\* --------------------------------------------------------- trigger_import
\* _trigger_import: one call of import_bitbucket_server, answered by `response`;
\* it returns the job or raises what the call raised
_trigger_import(project, suffix, response) ==
    [calls  |-> << [bitbucket_server_project |-> project.bb_project,
                    bitbucket_server_repo    |-> project.bb_repo,
                    new_name                 |-> project.gl_project \o suffix,
                    target_namespace         |-> project.gl_group,
                    response                 |-> response] >>,
     job    |-> response = "ok",
     raised |-> response # "ok"]

\* OnConflict without its 'ignore' branch: every conflict is retried
OnConflict_AlwaysRenames(project, r1, second) ==
    LET r2 == _trigger_import(project, SuffixBB, second)
    IN  [calls |-> r1.calls \o r2.calls, job |-> r2.job, raised |-> r2.raised]

\* OnConflict retrying under the name that was just refused
OnConflict_NoSuffix(project, r1, second) ==
    IF on_duplicate = "ignore"
    THEN [calls |-> r1.calls, job |-> FALSE, raised |-> FALSE]
    ELSE LET r2 == _trigger_import(project, EmptyStr, second)
         IN  [calls |-> r1.calls \o r2.calls, job |-> r2.job, raised |-> r2.raised]

\* what trigger_import does after the first call raised a GitlabHttpError that
\* is a 422 "Path has already been taken"
OnConflict(project, r1, second) ==
    IF on_duplicate = "ignore"
    THEN [calls |-> r1.calls, job |-> FALSE, raised |-> FALSE]
    ELSE LET r2 == _trigger_import(project, SuffixBB, second)
         IN  [calls |-> r1.calls \o r2.calls, job |-> r2.job, raised |-> r2.raised]

\* trigger_import without the `raise e` of its else branch: an error that is no
\* conflict is swallowed and None is returned
trigger_import_Swallows(project, first, second) ==
    IF on_duplicate = "error"
    THEN _trigger_import(project, EmptyStr, first)
    ELSE IF on_duplicate \in {"ignore", "rename"}
    THEN LET r1 == _trigger_import(project, EmptyStr, first)
         IN  IF ~r1.raised THEN r1
             ELSE IF first = "conflict" THEN OnConflict(project, r1, second)
             ELSE [calls |-> r1.calls, job |-> FALSE, raised |-> FALSE]
    ELSE [calls |-> <<>>, job |-> FALSE, raised |-> TRUE]

\* trigger_import, the target answering `first` to the first submission and
\* `second` to the second one, if there is one
trigger_import(project, first, second) ==
    IF on_duplicate = "error"
    THEN _trigger_import(project, EmptyStr, first)
    ELSE IF on_duplicate \in {"ignore", "rename"}
    THEN LET r1 == _trigger_import(project, EmptyStr, first)
         IN  IF ~r1.raised THEN r1
             ELSE IF first = "conflict" THEN OnConflict(project, r1, second)
             ELSE r1
    ELSE [calls |-> <<>>, job |-> FALSE, raised |-> TRUE]

\* -------------------------------------------------------- import_projects
\* the comparison off by one
HasFreeSlot_OffByOne == Len(processing) <= parallel_imports

\* `len(processing) < parallel_imports`
HasFreeSlot == Len(processing) < parallel_imports

\* the local variables of import_projects before its first loop
ImportStart ==
    /\ pc = "loop"
    /\ phase = "refill"
    /\ iter_pos = 0
    /\ processing = <<>>
    /\ counter = 0
    /\ updated = <<>>
    /\ poll_i = 1
    /\ slept = FALSE
    /\ import_status = <<>>
    /\ submissions = <<>>
    /\ dropped = {}

\* copy_permissions before it is called
PermIdle ==
    /\ ppc = "idle"
    /\ pg = 1
    /\ pr = 0
    /\ entity = [type |-> "none", path |-> EmptyStr]
    /\ bb_users = <<>>
    /\ u_idx = 1
    /\ user_map = [h \in Handles |-> "absent"]
    /\ lookups = [h \in Handles |-> 0]
    /\ cache_hit = FALSE
    /\ users_granted = [h \in Handles |-> 0]
    /\ members = [h \in Handles \cup {current_user} |-> 0]
    /\ create_calls = <<>>
    /\ delete_call = "none"

\* what the Bitbucket server holds: no repository at all, or up to MaxRepos in
\* the first project (user) and one in the second
Catalog ==
    /\ bb_groups = GroupNames
    /\ \/ bb_repos = << <<>>, <<>> >>
       \/ \E n \in 0..MaxRepos :
             bb_repos = << SubSeq(RepoNames, 1, n), <<RepoNames[1]>> >>

\* import_projects is called, for either generator, under any configuration
Init ==
    /\ generator \in {"main", "personal"}
    /\ Catalog
    /\ on_duplicate \in Policies
    /\ group_prefix \in (IF generator = "main" THEN Prefixes ELSE {EmptyStr})
    /\ parallel_imports \in 0..MaxParallel
    /\ project_blacklist \in Blacklists
    /\ dry_run = FALSE
    /\ ImportStart
    /\ PermIdle

\* every submission of the call is counted
Counted_PerSubmission(calls) == counter + Len(calls)

\* `counter += 1` for the job trigger_import returned
Counted(calls) == counter + 1

\* the refill branch: next(projects_iter) yields a descriptor and trigger_import
\* is called for it
Submit ==
    /\ pc = "loop"
    /\ HasFreeSlot
    /\ iter_pos < Len(yield_repos)
    /\ \E first \in Responses, second \in Responses :
         LET r == trigger_import(yield_repos[iter_pos + 1], first, second)
         IN  /\ iter_pos' = iter_pos + 1
             /\ submissions' = r.calls
             /\ IF r.raised
                THEN /\ pc' = "fatal"
                     /\ UNCHANGED <<processing, counter, import_status>>
                ELSE /\ pc' = "loop"
                     /\ IF r.job
                        THEN /\ import_status' = import_status @@ (counter + 1 :> "scheduled")
                             /\ processing' = Append(processing, counter + 1)
                             /\ counter' = Counted(r.calls)
                        ELSE UNCHANGED <<processing, counter, import_status>>
    /\ UNCHANGED perm_vars
    /\ UNCHANGED <<config_vars, phase, updated, poll_i, slept, dropped>>

\* the refill branch: next(projects_iter) raises StopIteration
Exhausted ==
    /\ pc = "loop"
    /\ HasFreeSlot
    /\ iter_pos = Len(yield_repos)
    /\ pc' = "drain"
    /\ UNCHANGED perm_vars
    /\ UNCHANGED <<config_vars, phase, iter_pos, processing, counter, updated,
                   poll_i, slept, env_vars>>

\* the else branch of the first loop: check_and_sleep is called
PollWhenFull ==
    /\ pc = "loop"
    /\ ~HasFreeSlot
    /\ pc' = "poll"
    /\ phase' = "refill"
    /\ updated' = <<>>
    /\ poll_i' = 1
    /\ UNCHANGED perm_vars
    /\ UNCHANGED <<config_vars, iter_pos, processing, counter, slept, env_vars>>

\* the second loop: check_and_sleep is called while processing is not empty
DrainPoll ==
    /\ pc = "drain"
    /\ processing # <<>>
    /\ pc' = "poll"
    /\ phase' = "drain"
    /\ updated' = <<>>
    /\ poll_i' = 1
    /\ UNCHANGED perm_vars
    /\ UNCHANGED <<config_vars, iter_pos, processing, counter, slept, env_vars>>

\* the second loop ends and the count is printed
Finish ==
    /\ pc = "drain"
    /\ processing = <<>>
    /\ pc' = "done"
    /\ UNCHANGED perm_vars
    /\ UNCHANGED <<config_vars, phase, iter_pos, processing, counter, updated,
                   poll_i, slept, env_vars>>

\* -------------------------------------------------------- check_and_sleep
\* a job is let go only when it has finished
KeepsJob_UntilFinished(status) == status # "finished"

\* `status.import_status == 'started'`: the job is kept
KeepsJob(status) == status = "started"

\* one turn of check_and_sleep's loop: the job's status is fetched
PollJob ==
    /\ pc = "poll"
    /\ poll_i <= Len(processing)
    /\ LET job == processing[poll_i]
           status == import_status[job]
       IN  IF KeepsJob(status)
           THEN /\ updated' = Append(updated, job)
                /\ UNCHANGED dropped
           ELSE /\ dropped' = dropped \cup {status}
                /\ UNCHANGED updated
    /\ poll_i' = poll_i + 1
    /\ UNCHANGED perm_vars
    /\ UNCHANGED <<config_vars, pc, phase, iter_pos, processing, counter, slept,
                   import_status, submissions>>

\* check_and_sleep sleeps whenever a job is left
MustSleep_WhenAnyLeft == Len(updated) >= 1

\* `len(updated) >= parallel_imports`: check_and_sleep sleeps
MustSleep == Len(updated) >= parallel_imports

\* the end of check_and_sleep: it sleeps or not, and the caller assigns the
\* list it returns to processing
PollEnd ==
    /\ pc = "poll"
    /\ poll_i > Len(processing)
    /\ slept' = MustSleep
    /\ processing' = updated
    /\ pc' = IF phase = "refill" THEN "loop" ELSE "drain"
    /\ UNCHANGED perm_vars
    /\ import_status' = [job \in {updated[i] : i \in 1..Len(updated)} |-> import_status[job]]
    /\ UNCHANGED <<config_vars, phase, iter_pos, counter, updated, poll_i, submissions,
                   dropped>>

\* ---------------------------------------------------- the target platform
\* GitLab starts a scheduled import
RemoteStart(job) ==
    /\ import_status[job] = "scheduled"
    /\ import_status' = [import_status EXCEPT ![job] = "started"]
    /\ UNCHANGED perm_vars
    /\ UNCHANGED <<config_vars, sched_vars, submissions, dropped>>

\* GitLab ends a started import, successfully or not
RemoteEnd(job) ==
    /\ import_status[job] = "started"
    /\ \E s \in {"finished", "failed"} :
           import_status' = [import_status EXCEPT ![job] = s]
    /\ UNCHANGED perm_vars
    /\ UNCHANGED <<config_vars, sched_vars, submissions, dropped>>

\* the jobs whose status is followed: the progress of a job that a poll round
\* has let go is not, since no step of the program fetches its status again
Watched == DOMAIN import_status

Remote == \E job \in Watched : RemoteStart(job) \/ RemoteEnd(job)

Scheduler ==
    \/ Submit
    \/ Exhausted
    \/ PollWhenFull
    \/ DrainPoll
    \/ Finish
    \/ PollJob
    \/ PollEnd

Next == Scheduler \/ Remote

\* ------------------------------------------------------- copy_permissions
\* the name of a Bitbucket permission on a project ("PROJECT") or a repo
PermissionName(kind, tier) ==
    IF kind = "PROJECT"
    THEN CASE tier = "READ" -> "PROJECT_READ" [] tier = "WRITE" -> "PROJECT_WRITE"
           [] OTHER -> "PROJECT_ADMIN"
    ELSE CASE tier = "READ" -> "REPO_READ" [] tier = "WRITE" -> "REPO_WRITE"
           [] OTHER -> "REPO_ADMIN"

RECURSIVE GrantList(_, _, _)
\* the grants of the users from the i-th on, f giving each user's tier or "-"
GrantList(f, i, kind) ==
    IF i > Len(UserNames) THEN <<>>
    ELSE (IF f[UserNames[i]] = "-" THEN <<>>
          ELSE << [slug |-> UserNames[i],
                   permission |-> PermissionName(kind, f[UserNames[i]])] >>)
         \o GrantList(f, i + 1, kind)

\* what bitbucket.project_users / repo_users can return: every user at most once
GrantLists(kind) ==
    {GrantList(f, 1, kind) : f \in [Handles -> {"-", "READ", "WRITE", "ADMIN"}]}

\* the members of an entity when copy_permissions_for is called: nobody but,
\* possibly, the current user as its owner
MembersBefore(owner) ==
    [h \in Handles \cup {current_user} |->
        IF h = current_user /\ owner THEN OWNER_ACCESS ELSE 0]

\* copy_permissions_for is entered for entity `ent` with the grants `list`; with
\* no grants it returns at once, to the loop over the repos (repo index `next`)
Enter(ent, list, owner, next) ==
    /\ entity' = ent
    /\ bb_users' = list
    /\ u_idx' = 1
    /\ users_granted' = [h \in Handles |-> 0]
    /\ members' = MembersBefore(owner)
    /\ create_calls' = <<>>
    /\ delete_call' = "none"
    /\ IF list = <<>>
       THEN ppc' = "repo" /\ pr' = next
       ELSE ppc' = "grants" /\ pr' = next - 1

\* `bb_project_slug in project_blacklist` of copy_permissions
PermSkipsBlacklisted(i) == bb_groups[i] \in project_blacklist

\* one turn of the loop over project_list
PermProject ==
    /\ ppc = "project"
    /\ IF pg > Len(bb_groups)
       THEN /\ ppc' = "done"
            /\ UNCHANGED <<pg, pr, entity, bb_users, u_idx, users_granted, members,
                           create_calls, delete_call>>
       ELSE IF PermSkipsBlacklisted(pg) \/ bb_repos[pg] = <<>>
       THEN /\ pg' = pg + 1
            /\ UNCHANGED <<ppc, pr, entity, bb_users, u_idx, users_granted, members,
                           create_calls, delete_call>>
       ELSE \E list \in GrantLists("PROJECT"), found \in BOOLEAN, owner \in BOOLEAN :
              IF found
              THEN /\ Enter([type |-> "Group",
                             path |-> get_gitlab_group(bb_groups[pg])],
                            list, owner, 1)
                   /\ UNCHANGED pg
              ELSE /\ ppc' = "fatal"
                   /\ UNCHANGED <<pg, pr, entity, bb_users, u_idx, users_granted,
                                  members, create_calls, delete_call>>
    /\ UNCHANGED <<dry_run, user_map, lookups, cache_hit>>
    /\ UNCHANGED <<config_vars, import_vars>>

\* one turn of the loop over bb_repo_list
PermRepo ==
    /\ ppc = "repo"
    /\ IF pr > Len(bb_repos[pg])
       THEN /\ ppc' = "project"
            /\ pg' = pg + 1
            /\ UNCHANGED <<pr, entity, bb_users, u_idx, users_granted, members,
                           create_calls, delete_call>>
       ELSE \E list \in GrantLists("REPO"), found \in BOOLEAN, owner \in BOOLEAN :
              IF found
              THEN /\ Enter([type |-> "Project",
                             path |-> get_gitlab_group(bb_groups[pg]) \o Slash
                                        \o bb_repos[pg][pr]],
                            list, owner, pr + 1)
                   /\ UNCHANGED pg
              ELSE /\ ppc' = "fatal"
                   /\ UNCHANGED <<pg, pr, entity, bb_users, u_idx, users_granted,
                                  members, create_calls, delete_call>>
    /\ UNCHANGED <<dry_run, user_map, lookups, cache_hit>>
    /\ UNCHANGED <<config_vars, import_vars>>

\* --------------------------------------------------- copy_permissions_for
\* a cached None is looked up again
NeedsLookup_RetriesNone(name) == user_map[name] # "user"

\* `bb_user_name not in user_map`
NeedsLookup(name) == user_map[name] = "absent"

\* user_map after `user_map[bb_user_name] = response[0] if response else None`
Memoized(name, found) ==
    [user_map EXCEPT ![name] = IF found THEN "user" ELSE "none"]

\* a user that was looked up counts as found
Resolved_Always(map, name) == map[name] # "absent"

\* `if gl_user:`: the lookup gave a user, not None
Resolved(map, name) == map[name] = "user"

\* `if not dry_run:` before members.create
CreatesMembers == ~dry_run

\* the retry is made two levels below
member_create_TwoBelow(name, access, first, second) ==
    IF first = "ok"
    THEN << [user |-> name, access_level |-> access, result |-> first] >>
    ELSE << [user |-> name, access_level |-> access, result |-> first],
            [user |-> name, access_level |-> access - 2 * FallbackStep,
             result |-> second] >>

\* the calls of gl_entity.members.create for one user: the first at the mapped
\* level and, when it raises, the second at the level below
member_create(name, access, first, second) ==
    IF first = "ok"
    THEN << [user |-> name, access_level |-> access, result |-> first] >>
    ELSE << [user |-> name, access_level |-> access, result |-> first],
            [user |-> name, access_level |-> access - FallbackStep,
             result |-> second] >>

\* the members after these calls: a call that was answered "ok" made the user
\* a member at its level
MembersAfter(m, calls) ==
    LET last == calls[Len(calls)]
    IN  IF last.result = "ok" THEN [m EXCEPT ![last.user] = last.access_level]
        ELSE m

\* the last branch raises the error again
CreateErrorHandled_OtherRaises(calls) ==
    calls[Len(calls)].result \in {"ok", "exists", "inherited"}

\* the `except GitlabError` around the second members.create: whatever the
\* error says ("already exists", "inherited membership from group", anything
\* else) it is logged and the loop goes on
CreateErrorHandled(calls) ==
    calls[Len(calls)].result \in {"ok", "exists", "inherited", "other"}

\* `users_granted[gl_user.username] = gl_user_access`
Granted(name, access) == [users_granted EXCEPT ![name] = access]

\* one turn of the loop over bb_users
Grant ==
    /\ ppc = "grants"
    /\ u_idx <= Len(bb_users)
    /\ LET name == bb_users[u_idx].slug
           access == permission_map[bb_users[u_idx].permission]
       IN  \E found \in BOOLEAN, first \in FirstResults, second \in CreateResults :
             LET map == IF NeedsLookup(name) THEN Memoized(name, found) ELSE user_map
                 calls == member_create(name, access, first, second)
             IN  /\ user_map' = map
                 /\ IF NeedsLookup(name)
                    THEN /\ lookups' = [lookups EXCEPT ![name] = @ + 1]
                         /\ cache_hit' = FALSE
                    ELSE /\ cache_hit' = TRUE
                         /\ UNCHANGED lookups
                 /\ IF Resolved(map, name)
                    THEN /\ users_granted' = Granted(name, access)
                         /\ IF CreatesMembers
                            THEN /\ create_calls' = create_calls \o calls
                                 /\ members' = MembersAfter(members, calls)
                                 /\ ppc' = IF CreateErrorHandled(calls)
                                           THEN "grants" ELSE "fatal"
                            ELSE UNCHANGED <<create_calls, members, ppc>>
                    ELSE UNCHANGED <<users_granted, create_calls, members, ppc>>
    /\ u_idx' = u_idx + 1
    /\ UNCHANGED <<dry_run, pg, pr, entity, bb_users, delete_call>>
    /\ UNCHANGED <<config_vars, import_vars>>

\* `any(level >= 50 for level in users_granted.values())`
admin_added == \E h \in Handles : users_granted[h] >= AdminLevel

\* the current user is deleted in a dry run too
DeletesCurrentUser_InDryRun == admin_added

\* `if admin_added:` and, under it, `if not dry_run:` before members.delete
DeletesCurrentUser == admin_added /\ ~dry_run

\* the `except GitlabError` around members.delete: a "404" is passed over in
\* silence, any other error is logged
DeleteErrorHandled(answer) == answer \in {"ok", "404", "other"}

\* the answers gl_entity.members.delete(current_user.id) can get
DeleteAnswers == IF members[current_user] > 0 THEN {"ok", "other"} ELSE {"404", "other"}

\* the end of copy_permissions_for: the current user is deleted from the entity
\* when admin_added, and the call returns to the loop over the repos
Demote ==
    /\ ppc = "grants"
    /\ u_idx > Len(bb_users)
    /\ IF DeletesCurrentUser
       THEN \E answer \in DeleteAnswers :
              /\ delete_call' = answer
              /\ members' = IF answer = "ok"
                            THEN [members EXCEPT ![current_user] = 0]
                            ELSE members
              /\ ppc' = IF DeleteErrorHandled(answer) THEN "repo" ELSE "fatal"
       ELSE /\ ppc' = "repo"
            /\ UNCHANGED <<delete_call, members>>
    /\ pr' = pr + 1
    /\ UNCHANGED <<dry_run, pg, entity, bb_users, u_idx, user_map, lookups,
                   cache_hit, users_granted, create_calls>>
    /\ UNCHANGED <<config_vars, import_vars>>

\* copy_permissions is called: user_map is empty and the loop begins
PermInit ==
    /\ generator = "main"
    /\ Catalog
    /\ on_duplicate = "ignore"
    /\ group_prefix \in Prefixes
    /\ parallel_imports = 1
    /\ project_blacklist \in SUBSET {GroupNames[1]}
    /\ dry_run \in BOOLEAN
    /\ pc = "idle"
    /\ phase = "refill"
    /\ iter_pos = 0
    /\ processing = <<>>
    /\ counter = 0
    /\ updated = <<>>
    /\ poll_i = 1
    /\ slept = FALSE
    /\ import_status = <<>>
    /\ submissions = <<>>
    /\ dropped = {}
    /\ ppc = "project"
    /\ pg = 1
    /\ pr = 0
    /\ entity = [type |-> "none", path |-> EmptyStr]
    /\ bb_users = <<>>
    /\ u_idx = 1
    /\ user_map = [h \in Handles |-> "absent"]
    /\ lookups = [h \in Handles |-> 0]
    /\ cache_hit = FALSE
    /\ users_granted = [h \in Handles |-> 0]
    /\ members = [h \in Handles \cup {current_user} |-> 0]
    /\ create_calls = <<>>
    /\ delete_call = "none"

PermNext ==
    \/ PermProject
    \/ PermRepo
    \/ Grant
    \/ Demote

PermSpec == PermInit /\ [][PermNext]_vars

Spec == Init /\ [][Next]_vars

\* import_projects is called for the main generator
FairInit ==
    /\ Init
    /\ generator = "main"
    /\ group_prefix = EmptyStr
    /\ project_blacklist \in {{}, {GroupNames[1]}}

\* the loop of import_projects is sequential code that keeps running, and the
\* hypothesis of termination is that no job stays started for ever
FairSpec ==
    /\ FairInit
    /\ [][Next]_vars
    /\ WF_vars(Scheduler)
    /\ WF_vars(\E job \in Watched : RemoteEnd(job))

\* ------------------------------------------------------------------ claims
\* the step is a call of trigger_import (the only step that advances the iterator)
\* ------------------------------------------------------------------- main
\* import_main_projects has returned and main calls copy_permissions(): the
\* locals of import_projects are gone, what was submitted last stays on GitLab
StartPermissions ==
    /\ generator = "main"
    /\ pc = "done"
    /\ ppc = "idle"
    /\ ppc' = "project"
    /\ phase' = "refill"
    /\ iter_pos' = 0
    /\ counter' = 0
    /\ updated' = <<>>
    /\ poll_i' = 1
    /\ slept' = FALSE
    /\ dropped' = {}
    /\ UNCHANGED <<pc, processing, import_status, submissions>>
    /\ UNCHANGED <<dry_run, pg, pr, entity, bb_users, u_idx, user_map, lookups,
                   cache_hit, users_granted, members, create_calls, delete_call>>
    /\ UNCHANGED config_vars

\* copy_permissions has returned and main calls import_personal_projects():
\* import_projects starts anew with the generator of the personal repos
StartPersonal ==
    /\ generator = "main"
    /\ ppc = "done"
    /\ generator' = "personal"
    /\ pc' = "loop"
    /\ phase' = "refill"
    /\ iter_pos' = 0
    /\ processing' = <<>>
    /\ counter' = 0
    /\ updated' = <<>>
    /\ poll_i' = 1
    /\ slept' = FALSE
    /\ import_status' = <<>>
    /\ submissions' = <<>>
    /\ dropped' = {}
    /\ pg' = 1
    /\ pr' = 0
    /\ entity' = [type |-> "none", path |-> EmptyStr]
    /\ bb_users' = <<>>
    /\ u_idx' = 1
    /\ user_map' = [h \in Handles |-> "absent"]
    /\ lookups' = [h \in Handles |-> 0]
    /\ cache_hit' = FALSE
    /\ users_granted' = [h \in Handles |-> 0]
    /\ members' = [h \in Handles \cup {current_user} |-> 0]
    /\ create_calls' = <<>>
    /\ delete_call' = "none"
    /\ UNCHANGED <<dry_run, ppc>>
    /\ UNCHANGED <<bb_groups, bb_repos, on_duplicate, group_prefix,
                   parallel_imports, project_blacklist>>

\* main() is called: import_main_projects begins; the server holds two
\* projects (and two users), the second with one repository
MainInit ==
    /\ generator = "main"
    /\ bb_groups = GroupNames
    /\ \E n \in 0..1 : bb_repos = << SubSeq(RepoNames, 1, n), <<RepoNames[1]>> >>
    /\ on_duplicate \in {"ignore", "rename"}
    /\ group_prefix \in Prefixes
    /\ parallel_imports = 2
    /\ project_blacklist = {}
    /\ dry_run = FALSE
    /\ ImportStart
    /\ PermIdle

MainNext ==
    \/ Scheduler
    \/ Remote
    \/ StartPermissions
    \/ PermNext
    \/ StartPersonal

MainSpec == MainInit /\ [][MainNext]_vars

TriggerStep == iter_pos' = iter_pos + 1

\* C1: the in-flight list processing never holds more than parallel_imports
\* jobs, and an import is submitted only when it holds fewer
C1_InFlightBounded ==
    /\ [](Len(processing) <= parallel_imports)
    /\ [][TriggerStep => Len(processing) < parallel_imports]_vars

\* the window is full, a poll round is under way and descriptors remain
C1_Witness ==
    /\ parallel_imports >= 2
    /\ Len(processing) = parallel_imports
    /\ pc = "poll"
    /\ iter_pos < Len(yield_repos)

\* C2: with parallel_imports >= 1 and no job started for ever, import_projects
\* ends (done, or a fatal error), and it is done only with the source sequence
\* exhausted and the in-flight list empty
C2_Terminates ==
    /\ [](pc = "done" => iter_pos = Len(yield_repos) /\ processing = <<>>)
    /\ (parallel_imports >= 1 => <>(pc \in {"done", "fatal"}))

\* the run is done after two jobs, one of which a poll round saw end
C2_Witness ==
    /\ pc = "done"
    /\ counter >= 2
    /\ dropped \cap {"finished", "failed"} # {}

\* C3: outside dry-run, the removal of the current user is requested if and only
\* if a members.create of this call succeeded at the owner level
C3_DemotionRule ==
    (ppc = "repo" /\ ~dry_run)
        => (delete_call # "none"
            <=> \E i \in 1..Len(create_calls) :
                    /\ create_calls[i].result = "ok"
                    /\ create_calls[i].access_level >= OWNER_ACCESS)

\* C4: an entity the current user owned when copy_permissions_for was called
\* has an owner when it returns: the current user is deleted only when another
\* member is an owner
C4_NeverOrphaned ==
    delete_call = "ok" => \E h \in Handles : members[h] >= OWNER_ACCESS

\* C5: gitlab.users.list is called at most once per username in a run, also when
\* it found nobody, and an entry of user_map never changes
C5_OneLookup ==
    /\ [](\A h \in Handles : lookups[h] <= 1)
    /\ [][\A h \in Handles : user_map[h] # "absent" => user_map'[h] = user_map[h]]_vars

\* a username that resolved to nobody is met again, on a project, and is found
\* in user_map
C5_Witness ==
    /\ ppc = "grants"
    /\ entity.type = "Project"
    /\ u_idx > 1
    /\ cache_hit
    /\ user_map[bb_users[u_idx - 1].slug] = "none"
    /\ lookups[bb_users[u_idx - 1].slug] = 1

\* C6: under 'ignore', a submission refused as a duplicate is the only call of
\* its trigger_import, adds no job, leaves the counter, and the loop goes on
C6_IgnoreSkips ==
    [][(/\ TriggerStep
        /\ on_duplicate = "ignore"
        /\ submissions'[1].response = "conflict")
       => /\ Len(submissions') = 1
          /\ submissions'[1].bitbucket_server_repo = yield_repos[iter_pos + 1].bb_repo
          /\ processing' = processing
          /\ import_status' = import_status
          /\ counter' = counter
          /\ pc' = "loop"]_vars

\* a descriptor was skipped and a later one was imported
C6_Witness ==
    /\ on_duplicate = "ignore"
    /\ pc = "done"
    /\ counter >= 1
    /\ counter < iter_pos
    /\ submissions[1].response = "ok"

\* C7: under 'rename', a submission refused as a duplicate is followed by
\* exactly one more, for the same repository and group under the slug with the
\* suffix; its job is added and counted, or its failure ends the run
C7_RenameRetriesOnce ==
    /\ [][(/\ TriggerStep
           /\ on_duplicate = "rename"
           /\ submissions'[1].response = "conflict")
          => LET d == yield_repos[iter_pos + 1]
                 c1 == submissions'[1]
                 c2 == submissions'[2]
             IN  /\ Len(submissions') = 2
                 /\ c1.new_name = d.gl_project
                 /\ c2.new_name = d.gl_project \o <<"_", "B", "B">>
                 /\ c2.target_namespace = c1.target_namespace
                 /\ c2.target_namespace = d.gl_group
                 /\ c2.bitbucket_server_project = d.bb_project
                 /\ c2.bitbucket_server_repo = d.bb_repo
                 /\ IF c2.response = "ok"
                    THEN /\ counter' = counter + 1
                         /\ processing' = Append(processing, counter')
                         /\ pc' = "loop"
                    ELSE /\ counter' = counter
                         /\ processing' = processing
                         /\ pc' = "fatal"]_vars
    /\ [][pc = "fatal" => submissions' = submissions]_vars

\* the last import was a retry that was accepted, and the run is done
C7_Witness ==
    /\ on_duplicate = "rename"
    /\ pc = "done"
    /\ Len(submissions) = 2
    /\ submissions[2].response = "ok"
    /\ counter >= 1

\* the i-th call of a trigger_import failed and the policy does not cover it
Uncovered(calls, i) ==
    /\ calls[i].response # "ok"
    /\ ~(i = 1 /\ calls[i].response = "conflict" /\ on_duplicate \in {"ignore", "rename"})

\* C8: a failed submission other than a first-attempt duplicate under 'ignore'
\* or 'rename' ends the run: nothing is submitted or polled after it
C8_OtherFailuresFatal ==
    /\ [][(TriggerStep /\ \E i \in 1..Len(submissions') : Uncovered(submissions', i))
          => pc' = "fatal"]_vars
    /\ [][pc = "fatal" => UNCHANGED <<sched_vars, submissions>>]_vars

\* under 'ignore', with a job in flight, a submission failed with an error that
\* is no duplicate, and the run is over
C8_Witness ==
    /\ pc = "fatal"
    /\ on_duplicate = "ignore"
    /\ processing # <<>>
    /\ Len(submissions) = 1
    /\ submissions[1].response = "error"

\* C9: a poll round lets a job go only when its import has finished or failed
C9_DroppedOnlyTerminal == dropped \subseteq {"finished", "failed"}

\* the key under which the repositories of the i-th group are listed and imported
SourceGroupKey(i) ==
    IF generator = "main" THEN bb_groups[i] ELSE Tilde \o bb_groups[i]

RECURSIVE ReposNotBlacklisted(_)
\* the number of repositories of the groups from the i-th on whose key is not
\* in project_blacklist
ReposNotBlacklisted(i) ==
    IF i > Len(bb_groups) THEN 0
    ELSE (IF SourceGroupKey(i) \in project_blacklist THEN 0 ELSE Len(bb_repos[i]))
         + ReposNotBlacklisted(i + 1)

\* C10: no descriptor of a blacklisted group is yielded or submitted, and when
\* the generator is exhausted it has yielded every other repository
C10_BlacklistRespected ==
    /\ \A i \in 1..iter_pos : yield_repos[i].bb_project \notin project_blacklist
    /\ \A i \in 1..Len(submissions) :
           submissions[i].bitbucket_server_project \notin project_blacklist
    /\ pc \in {"drain", "done"} => iter_pos = ReposNotBlacklisted(1)

RECURSIVE EnumerationFrom(_, _)
\* the (group key, repo slug) pairs of the source from the j-th repository of the
\* i-th group on, in the order the Bitbucket server lists them, the groups the
\* generator passes over left out
EnumerationFrom(i, j) ==
    IF i > Len(bb_groups) THEN <<>>
    ELSE IF bb_groups[i] \in project_blacklist \/ j > Len(bb_repos[i])
    THEN EnumerationFrom(i + 1, 1)
    ELSE << <<SourceGroupKey(i), bb_repos[i][j]>> >> \o EnumerationFrom(i, j + 1)

\* C11: the k-th call of trigger_import makes its first submission for the k-th
\* repository of the source enumeration, whatever the jobs before it did: no
\* descriptor is passed over, reordered or attempted twice
C11_SubmissionOrder ==
    /\ [](iter_pos <= Len(EnumerationFrom(1, 1)))
    /\ [][iter_pos' \in {iter_pos, iter_pos + 1}]_vars
    /\ [][(TriggerStep /\ submissions' # <<>>)
          => <<submissions'[1].bitbucket_server_project,
               submissions'[1].bitbucket_server_repo>>
             = EnumerationFrom(1, 1)[iter_pos + 1]]_vars

\* the third import is submitted, for the repository of the second group, after
\* a poll round has let an earlier job go
C11_Witness ==
    /\ iter_pos >= 3
    /\ dropped # {}
    /\ submissions # <<>>
    /\ submissions[1].bitbucket_server_project = SourceGroupKey(2)
    /\ submissions[1].response = "ok"

\* a step of copy_permissions_for: a turn of the loop over the grants, or its end
InCopyPermissionsFor == ppc = "grants" /\ (u_idx' # u_idx \/ ppc' # ppc)

\* C13: in a dry run copy_permissions_for calls neither members.create nor
\* members.delete and leaves the members of the entity as they were; it only
\* looks users up
C13_DryRunMutatesNothing ==
    /\ [](dry_run => create_calls = <<>> /\ delete_call = "none")
    /\ [][(dry_run /\ InCopyPermissionsFor)
          => /\ members' = members
             /\ create_calls' = create_calls
             /\ delete_call' = delete_call]_vars

\* a dry run went through an entity the current user owns, looked a user up and
\* found an owner among the grants
C13_Witness ==
    /\ dry_run
    /\ ppc = "repo"
    /\ bb_users # <<>>
    /\ admin_added
    /\ members[current_user] = OWNER_ACCESS
    /\ \E h \in Handles : lookups[h] = 1

\* the grants of alice and bob in the example of an unresolved owner
ExampleGrants ==
    << [slug |-> "alice", permission |-> "REPO_WRITE"],
       [slug |-> "bob", permission |-> "REPO_ADMIN"] >>

\* C14: a grant whose user is not found on GitLab is passed over: no
\* members.create is made for it, it is not among users_granted (so it never
\* makes admin_added true, and the current user is deleted only when a found
\* user was granted owner), and the grants after it are handled all the same;
\* with alice (REPO_WRITE) found and bob (REPO_ADMIN) not, alice becomes a
\* developer and the current user stays
C14_UnresolvedSkipped ==
    /\ \A h \in Handles : user_map[h] = "none" => users_granted[h] = 0
    /\ \A i \in 1..Len(create_calls) : user_map[create_calls[i].user] = "user"
    /\ delete_call # "none"
         => \E i \in 1..Len(bb_users) :
              /\ user_map[bb_users[i].slug] = "user"
              /\ permission_map[bb_users[i].permission] >= OWNER_ACCESS
    /\ \A i \in 1..Len(bb_users) :
         (i < u_idx /\ user_map[bb_users[i].slug] = "user")
           => users_granted[bb_users[i].slug] = permission_map[bb_users[i].permission]
    /\ ( /\ bb_users = ExampleGrants
         /\ ppc = "repo"
         /\ ~dry_run
         /\ user_map["alice"] = "user"
         /\ user_map["bob"] = "none" )
         => /\ delete_call = "none"
            /\ Len(create_calls) >= 1
            /\ create_calls[1].access_level = DEVELOPER_ACCESS
            /\ create_calls[1].result = "ok" => members["alice"] = DEVELOPER_ACCESS

\* the example: alice was made a developer of a project, bob was not found, and
\* the current user is still its owner
C14_Witness ==
    /\ bb_users = ExampleGrants
    /\ entity.type = "Project"
    /\ ppc = "repo"
    /\ ~dry_run
    /\ user_map["alice"] = "user"
    /\ user_map["bob"] = "none"
    /\ members["alice"] = DEVELOPER_ACCESS
    /\ members[current_user] = OWNER_ACCESS
    /\ delete_call = "none"

\* the access levels of GitLab, from guest to owner
AccessTiers == <<10, 20, 30, 40, 50>>

\* the level one tier below `level`
TierBelow(level) ==
    LET i == CHOOSE j \in 1..Len(AccessTiers) : AccessTiers[j] = level
    IN  AccessTiers[i - 1]

\* the members.create calls made by the step
NewCreateCalls == SubSeq(create_calls', Len(create_calls) + 1, Len(create_calls'))

\* C15: for a found user (no dry run) members.create is called once at the level
\* permission_map gives and, only when that call is refused, once more at the
\* level one tier below; never a third time; a call that succeeds leaves the
\* user a member at the level of that call
C15_AtMostTwoCreates ==
    [][(ppc = "grants" /\ u_idx' = u_idx + 1 /\ ~dry_run
          /\ user_map'[bb_users[u_idx].slug] = "user")
       => LET c == NewCreateCalls
              name == bb_users[u_idx].slug
              mapped == permission_map[bb_users[u_idx].permission]
          IN  /\ Len(c) \in {1, 2}
              /\ \A i \in 1..Len(c) : c[i].user = name
              /\ c[1].access_level = mapped
              /\ Len(c) = 2 <=> c[1].result # "ok"
              /\ c[1].result = "ok" => members'[name] = mapped
              /\ Len(c) = 2
                   => /\ c[2].access_level = TierBelow(mapped)
                      /\ c[2].result = "ok" => members'[name] = TierBelow(mapped)
                      /\ c[2].result # "ok" => members'[name] = members[name]]_vars

\* an owner grant was refused and the retry made the user a maintainer
C15_Witness ==
    /\ Len(create_calls) = 2
    /\ create_calls[1].user = create_calls[2].user
    /\ create_calls[1].access_level = OWNER_ACCESS
    /\ create_calls[1].result = "error"
    /\ create_calls[2].result = "ok"
    /\ members[create_calls[2].user] = TierBelow(OWNER_ACCESS)

\* C16: a failure of both members.create calls for a user, whatever the error,
\* and a failure of members.delete, "404" or other, do not end the pass: the
\* loop goes on with the next grant of the list and, after the last, with the
\* next repository
C16_GrantFailuresContained ==
    /\ [][(ppc = "grants" /\ u_idx <= Len(bb_users) /\ u_idx' # u_idx)
          => /\ ppc' = "grants"
             /\ u_idx' = u_idx + 1
             /\ \A i \in 1..Len(NewCreateCalls) :
                  NewCreateCalls[i].user = bb_users[u_idx].slug]_vars
    /\ [][(ppc = "grants" /\ ppc' # ppc)
          => /\ u_idx = Len(bb_users) + 1
             /\ ppc' = "repo"
             /\ pr' = pr + 1]_vars

\* both calls failed for alice, bob was granted after her, the delete of the
\* current user failed, and the pass is at the next repository
C16_Witness ==
    /\ ppc = "repo"
    /\ Len(create_calls) = 3
    /\ create_calls[2].user = "alice"
    /\ create_calls[2].result = "other"
    /\ create_calls[3].user = "bob"
    /\ create_calls[3].result = "ok"
    /\ delete_call = "other"

\* a step of import_projects or check_and_sleep, not of GitLab
SchedulerStep ==
    \/ pc' # pc
    \/ iter_pos' # iter_pos
    \/ poll_i' # poll_i
    \/ slept' # slept

\* C17: a round of check_and_sleep fetches the status of each job of processing
\* once, in order, keeps those that are started, and sleeps exactly when at
\* least parallel_imports jobs are kept; so after a round of the first loop that
\* let a job go, while the generator has more, the next step of import_projects
\* is a call of trigger_import, with no sleep before it
C17_SleepsOnlyWhenFull ==
    /\ [][(pc = "poll" /\ pc' = "poll" /\ SchedulerStep)
          => /\ poll_i <= Len(processing)
             /\ poll_i' = poll_i + 1
             /\ updated' = IF import_status[processing[poll_i]] = "started"
                           THEN Append(updated, processing[poll_i])
                           ELSE updated]_vars
    /\ [][(pc = "poll" /\ pc' # "poll")
          => /\ poll_i = Len(processing) + 1
             /\ processing' = updated
             /\ slept' <=> Len(processing') >= parallel_imports]_vars
    /\ [][(pc = "poll" /\ pc' = "loop" /\ Len(processing') < Len(processing))
          => ~slept' /\ Len(processing') < parallel_imports]_vars
    /\ [][(pc = "loop" /\ Len(processing) < parallel_imports
            /\ iter_pos < Len(EnumerationFrom(1, 1)) /\ SchedulerStep)
          => TriggerStep /\ slept' = slept]_vars

\* a round of the first loop has just let one of two jobs go, it did not sleep,
\* and the generator has a repository left
C17_Witness ==
    /\ pc = "loop"
    /\ phase = "refill"
    /\ updated = processing
    /\ Len(processing) >= 1
    /\ Len(processing) < parallel_imports
    /\ dropped # {}
    /\ ~slept
    /\ iter_pos < Len(EnumerationFrom(1, 1))

\* after the round that ends, the next thing import_projects does is another
\* round: the window is still full, or the generator is exhausted and a job is
\* still in processing
AnotherRoundFollows ==
    \/ pc' = "loop" /\ Len(processing') >= parallel_imports
    \/ pc' = "loop" /\ iter_pos = Len(EnumerationFrom(1, 1)) /\ processing' # <<>>
    \/ pc' = "drain" /\ processing' # <<>>

\* C18: when a round of check_and_sleep is followed by another with no call of
\* trigger_import between them, check_and_sleep has slept at the end of the
\* first, in the second loop (fewer than parallel_imports jobs left) as well
C18_NeverBusyWaits ==
    [][(pc = "poll" /\ pc' # "poll" /\ AnotherRoundFollows) => slept']_vars

\* C19: the count import_projects prints goes up by one exactly when
\* trigger_import returned a job, which is then added to processing: for every
\* descriptor but those passed over under "ignore"; a job that fails is still
\* counted and ends nothing, an import under the suffixed name counts once; so
\* with one repository, parallel_imports = 2 and "rename", a taken name gives
\* two submissions and a count of 1
C19_CountsJobs ==
    /\ [][TriggerStep
          => LET added == Len(processing') - Len(processing)
             IN  /\ added \in {0, 1}
                 /\ counter' - counter = added
                 /\ added = 1 => /\ processing' = Append(processing, counter')
                                 /\ submissions'[Len(submissions')].response = "ok"
                 /\ pc' = "fatal" => added = 0
                 /\ pc' # "fatal"
                      => (added = 0 <=> /\ on_duplicate = "ignore"
                                        /\ submissions'[1].response = "conflict")]_vars
    /\ [][~TriggerStep => counter' = counter]_vars
    /\ [][pc = "poll" => pc' \in {"poll", "loop", "drain"}]_vars
    /\ [](pc = "done" => counter <= Len(EnumerationFrom(1, 1)))
    /\ []((pc = "done" /\ on_duplicate \in {"error", "rename"})
            => counter = Len(EnumerationFrom(1, 1)))
    /\ []((pc = "done" /\ on_duplicate = "rename" /\ parallel_imports = 2
            /\ Len(EnumerationFrom(1, 1)) = 1)
            => counter = 1)

\* the example, the renamed import having failed on GitLab: one repository,
\* two submissions, a count of 1
C19_Witness ==
    /\ pc = "done"
    /\ on_duplicate = "rename"
    /\ parallel_imports = 2
    /\ Len(EnumerationFrom(1, 1)) = 1
    /\ Len(submissions) = 2
    /\ submissions[1].response = "conflict"
    /\ dropped = {"failed"}
    /\ counter = 1

\* the order of the three calls alone, whatever the jobs were let go with
PhasesInOrder ==
    /\ [][(ppc = "idle" /\ ppc' # "idle")
          => /\ generator = "main"
             /\ pc = "done"
             /\ iter_pos = Len(EnumerationFrom(1, 1))
             /\ processing = <<>>]_vars
    /\ [](ppc \notin {"idle", "done"} => generator = "main" /\ pc = "done")
    /\ [](generator = "personal" => ppc = "done")
    /\ [][generator' # generator => generator = "main" /\ ppc = "done"]_vars

\* C12: main runs its three calls one after the other: copy_permissions begins
\* only when import_main_projects is over, the generator exhausted and
\* processing empty, every job having been let go as finished or failed; and
\* import_personal_projects begins only when copy_permissions is over
C12_PhasesInSequence ==
    /\ PhasesInOrder
    /\ [][(ppc = "idle" /\ ppc' # "idle")
          => dropped \subseteq {"finished", "failed"}]_vars

\* the submission that made the project of the pr-th repository of the pg-th
\* Bitbucket project is the last one on record
ImportedLast ==
    /\ submissions # <<>>
    /\ submissions[Len(submissions)].response = "ok"
    /\ submissions[Len(submissions)].bitbucket_server_project = bb_groups[pg]
    /\ submissions[Len(submissions)].bitbucket_server_repo = bb_repos[pg][pr]

\* C20: when copy_permissions comes to a repository that this run has imported,
\* the GitLab project it fetches is the one the import made: its path is the
\* target_namespace and new_name of the submission GitLab accepted, the name
\* with the suffix included
C20_PermissionsOnImported ==
    [][(/\ generator = "main"
        /\ ppc = "repo"
        /\ ppc' \in {"grants", "repo"}
        /\ entity' # entity
        /\ entity'.type = "Project"
        /\ ImportedLast)
       => entity'.path = submissions[Len(submissions)].target_namespace \o Slash
                           \o submissions[Len(submissions)].new_name]_vars

====
